---------------------------- MODULE Spec2Model ----------------------------
(***************************************************************************)
(* LLM Billiards (src/main.py): the per-tick physics and the turn state    *)
(* machine of main(), with call_llm's validation of the advisor's answer.  *)
(*                                                                         *)
(* Python floats are modelled in fixed point: a position or a velocity is  *)
(* an integer number of 1/Scale pixels, an angle is a whole number of      *)
(* degrees, a sine or a unit normal is an integer number of 1/TrigOne.     *)
(* Every division rounds toward zero, so that the arithmetic is symmetric  *)
(* in sign as float arithmetic is.                                         *)
(***************************************************************************)
EXTENDS Integers, Sequences, FiniteSets, TLC

VARIABLES
    balls,          \* main(): the live ball list, in list order
    shots_taken,    \* main(): shots requested so far
    game_over,      \* main(): the terminal flag
    win_message,    \* main(): the outcome message (NoMessage is None)
    integrated,     \* the ball list of the last tick right after step 1 (update)
    pocketed,       \* the ball list of the last tick right after step 3 (pockets)
    foul,           \* the last tick printed "Foul: Cue ball pocketed"
    response,       \* what the advisor answered in the last tick (kind "none": not asked)
    fallback,       \* the fallback_angle main() computed in the last tick
    shot            \* what call_llm returned in the last tick (requested = FALSE: not called)

vars == <<balls, shots_taken, game_over, win_message,
          integrated, pocketed, foul, response, fallback, shot>>

---------------------------------------------------------------------------
(* Program constants                                                       *)

WIDTH == 800
HEIGHT == 400
BALL_RADIUS == 12
POCKET_RADIUS == 25
MAX_SHOTS == 10
\* FRICTION = 0.98 as the fraction FrictionNum / FrictionDen
FrictionNum == 98
FrictionDen == 100
\* is_moving's threshold 0.05 as the fraction 1 / RestDen
RestDen == 20
\* random.randint(-40, 40): the spread of the object balls around the black ball
RackSpread == 40
\* the power of the fallback shot, 8.0
FallbackPower == 8
\* the advisor's power range [0..15] and the angle's modulus
MaxPower == 15
FullTurn == 360

(* Bounds of the model                                                     *)

\* fixed-point resolution: units per pixel
Scale == 20
\* the advisor is reachable for the first MaxAnswered requests of a game;
\* every later request ends in a transport error
MaxAnswered == 1

WinMsg == "Black ball potted! AI wins!"
LoseMsg == "No more shots. Black ball remains. AI loses!"
ClearedMsg == "All balls cleared or black ball potted earlier."
NoMessage == "None"

colors == <<"RED", "BLUE", "YELLOW", "MAGENTA", "CYAN">>

pockets == <<
    <<0, 0>>,
    <<WIDTH, 0>>,
    <<0, HEIGHT>>,
    <<WIDTH, HEIGHT>> >>

---------------------------------------------------------------------------
(* Arithmetic                                                              *)

Abs(n) == IF n < 0 THEN -n ELSE n

\* F of the value of e. TLC evaluates an operator's argument again at every
\* use of the parameter when it computes ENABLED; the loops below pass their
\* state through With so that each step is evaluated once.
With(F(_), e) == CHOOSE r \in {F(v) : v \in {e}} : TRUE

\* float division, rounded toward zero
Div(a, b) ==
    IF (a >= 0) = (b >= 0) THEN Abs(a) \div Abs(b) ELSE -(Abs(a) \div Abs(b))

RECURSIVE SqrtIter(_, _, _)
SqrtIter(n, lo, hi) ==
    LET Half(mid) ==
            IF mid * mid <= n THEN SqrtIter(n, mid, hi) ELSE SqrtIter(n, lo, mid - 1)
    IN  IF lo >= hi THEN lo ELSE With(Half, (lo + hi + 1) \div 2)

\* the integer part of the square root of n, for 0 <= n < (4 * BALL_RADIUS * Scale)^2
ISqrt(n) == SqrtIter(n, 0, 4 * BALL_RADIUS * Scale)

\* math.sin of 0..90 degrees, in 1/1000
SinTable == <<
       0,   17,   35,   52,   70,   87,  105,  122,  139,  156,
     174,  191,  208,  225,  242,  259,  276,  292,  309,  326,
     342,  358,  375,  391,  407,  423,  438,  454,  469,  485,
     500,  515,  530,  545,  559,  574,  588,  602,  616,  629,
     643,  656,  669,  682,  695,  707,  719,  731,  743,  755,
     766,  777,  788,  799,  809,  819,  829,  839,  848,  857,
     866,  875,  883,  891,  899,  906,  914,  921,  927,  934,
     940,  946,  951,  956,  961,  966,  970,  974,  978,  982,
     985,  988,  990,  993,  995,  996,  998,  999,  999, 1000,
    1000 >>

\* the fixed-point value of 1.0 for sines and unit normals
TrigOne == SinTable[91]

\* math.sin(math.radians(a)) for a whole number of degrees
Sin(a) ==
    LET m == a % 360
    IN  IF m <= 90 THEN SinTable[m + 1]
        ELSE IF m <= 180 THEN SinTable[180 - m + 1]
        ELSE IF m <= 270 THEN -SinTable[m - 180 + 1]
        ELSE -SinTable[360 - m + 1]

\* math.cos(math.radians(a))
Cos(a) == Sin(a + 90)

RECURSIVE QuadSearch(_, _, _, _)
\* the greatest a in lo..hi whose direction is not past (dx, dy), turning
\* from the x axis toward the y axis; the direction of lo is not past it
QuadSearch(dx, dy, lo, hi) ==
    LET Half(mid) ==
            IF Sin(mid) * dx <= Cos(mid) * dy
            THEN QuadSearch(dx, dy, mid, hi)
            ELSE QuadSearch(dx, dy, lo, mid - 1)
    IN  IF lo >= hi THEN lo ELSE With(Half, (lo + hi + 1) \div 2)

\* atan2 of a direction in the first quadrant, in whole degrees
QuadAngle(dx, dy) == QuadSearch(dx, dy, 0, 90)

\* math.degrees(math.atan2(dy, dx)), in whole degrees, in -180..180
Atan2Deg(dy, dx) ==
    IF dx = 0 /\ dy = 0 THEN 0
    ELSE LET q == QuadAngle(Abs(dx), Abs(dy))
         IN  IF dx >= 0 THEN (IF dy >= 0 THEN q ELSE -q)
             ELSE (IF dy >= 0 THEN 180 - q ELSE q - 180)

angle_degrees(x1, y1, x2, y2) == Atan2Deg(y2 - y1, x2 - x1)

\* distance(x1, y1, x2, y2) squared: every use of distance compares two
\* distances, or a distance and a radius, and squaring keeps the order
DistanceSq(x1, y1, x2, y2) == (x2 - x1) * (x2 - x1) + (y2 - y1) * (y2 - y1)

---------------------------------------------------------------------------
(* Ball                                                                    *)

\* Ball.__init__
Ball(x, y, color, is_cue, is_black) ==
    [x |-> x * Scale, y |-> y * Scale, vx |-> 0, vy |-> 0,
     color |-> color, is_cue |-> is_cue, is_black |-> is_black]

\* v *= FRICTION
ApplyFriction(v) == Div(v * FrictionNum, FrictionDen)

\* UpdateAxis with the velocity turned at the edge and the position left past it
UpdateAxisNoClamp(p, v, limit) ==
    LET q == p + v
        w == ApplyFriction(v)
    IN  IF q - BALL_RADIUS * Scale < 0 \/ q + BALL_RADIUS * Scale > limit * Scale
        THEN <<q, -w>>
        ELSE <<q, w>>

\* Ball.update along one axis: move, apply friction, reflect at the table edge
UpdateAxis(p, v, limit) ==
    LET q == p + v
        w == ApplyFriction(v)
    IN  IF q - BALL_RADIUS * Scale < 0
        THEN <<BALL_RADIUS * Scale, -w>>
        ELSE IF q + BALL_RADIUS * Scale > limit * Scale
        THEN <<limit * Scale - BALL_RADIUS * Scale, -w>>
        ELSE <<q, w>>

\* Ball.update
Update(b) ==
    LET ax == UpdateAxis(b.x, b.vx, WIDTH)
        ay == UpdateAxis(b.y, b.vy, HEIGHT)
    IN  [b EXCEPT !.x = ax[1], !.vx = ax[2], !.y = ay[1], !.vy = ay[2]]

\* is_moving looking at vx alone
is_moving_x_only(b) == Abs(b.vx) * RestDen > Scale

\* Ball.is_moving
is_moving(b) ==
    \/ Abs(b.vx) * RestDen > Scale
    \/ Abs(b.vy) * RestDen > Scale

---------------------------------------------------------------------------
(* handle_collisions                                                       *)

\* the body of the pair loop for balls[i], balls[j]
CollidePair(bs, i, j) ==
    LET b1 == bs[i]
        b2 == bs[j]
        dx == b2.x - b1.x
        dy == b2.y - b1.y
        d2 == dx * dx + dy * dy
        reach == 2 * BALL_RADIUS * Scale
        \* if dist < 2 * BALL_RADIUS
        Overlapping(dist) ==
            LET overlap == reach - dist
                push_x == Div(dx * overlap, 2 * dist)
                push_y == Div(dy * overlap, 2 * dist)
                nx == Div(dx * TrigOne, dist)
                ny == Div(dy * TrigOne, dist)
                vn1 == Div(b1.vx * nx + b1.vy * ny, TrigOne)
                vn2 == Div(b2.vx * nx + b2.vy * ny, TrigOne)
                ex == Div((vn2 - vn1) * nx, TrigOne)
                ey == Div((vn2 - vn1) * ny, TrigOne)
            IN  [bs EXCEPT
                   ![i] = [b1 EXCEPT !.x = b1.x - push_x, !.y = b1.y - push_y,
                                     !.vx = b1.vx + ex, !.vy = b1.vy + ey],
                   ![j] = [b2 EXCEPT !.x = b2.x + push_x, !.y = b2.y + push_y,
                                     !.vx = b2.vx - ex, !.vy = b2.vy - ey]]
        \* dist = math.hypot(dx, dy); dist == 0 becomes 0.001: dx = dy = 0
        \* then, and every quotient above is 0 whatever the positive value
        Hypot(root) == IF root = 0 THEN 1 ELSE root
    IN  IF d2 >= reach * reach THEN bs
        ELSE With(Overlapping, With(Hypot, ISqrt(d2)))

RECURSIVE CollideLoop(_, _, _)
\* for i in range(len(balls)): for j in range(i + 1, len(balls))
CollideLoop(list, i, j) ==
    LET Rest(bs) ==
            IF i > Len(bs) THEN bs
            ELSE IF j > Len(bs) THEN CollideLoop(bs, i + 1, i + 2)
            ELSE CollideLoop(CollidePair(bs, i, j), i, j + 1)
    IN  With(Rest, list)

handle_collisions(bs) == CollideLoop(bs, 1, 2)

---------------------------------------------------------------------------
(* main(): step 3, the pocket check                                        *)

\* distance(b.x, b.y, px, py) < POCKET_RADIUS
InPocket(b, p) ==
    DistanceSq(b.x, b.y, p[1] * Scale, p[2] * Scale)
        < (POCKET_RADIUS * Scale) * (POCKET_RADIUS * Scale)

\* BlackPotted without game_over = True
BlackPottedMessageOnly(st, i) ==
    [st EXCEPT !.win_message = WinMsg]

\* BlackPotted with the black ball removed like an object ball
BlackPottedAndRemoved(st, i) ==
    [st EXCEPT !.game_over = TRUE, !.win_message = WinMsg, !.removed = @ \cup {i}]

\* if b.is_black: the game is won at once
BlackPotted(st, i) ==
    [st EXCEPT !.game_over = TRUE, !.win_message = WinMsg]

\* CuePotted without b.vx = 0, b.vy = 0
CuePottedKeepsVelocity(st, i) ==
    [st EXCEPT !.foul = TRUE,
               !.balls[i].x = (WIDTH \div 4) * Scale,
               !.balls[i].y = (HEIGHT \div 2) * Scale]

\* elif b.is_cue: the foul puts the cue ball back
CuePotted(st, i) ==
    [st EXCEPT !.foul = TRUE,
               !.balls[i].x = (WIDTH \div 4) * Scale,
               !.balls[i].y = (HEIGHT \div 2) * Scale,
               !.balls[i].vx = 0,
               !.balls[i].vy = 0]

\* else: removed_balls.append(b)
ObjectPotted(st, i) ==
    [st EXCEPT !.removed = @ \cup {i}]

RECURSIVE PocketLoop(_, _, _)
\* for b in balls: for (px, py) in pockets
PocketLoop(state, i, k) ==
    LET Rest(st) ==
            IF i > Len(st.balls) THEN st
            ELSE IF k > Len(pockets) THEN PocketLoop(st, i + 1, 1)
            ELSE IF InPocket(st.balls[i], pockets[k])
                 THEN PocketLoop(IF st.balls[i].is_black THEN BlackPotted(st, i)
                                 ELSE IF st.balls[i].is_cue THEN CuePotted(st, i)
                                 ELSE ObjectPotted(st, i),
                                 i, k + 1)
                 ELSE PocketLoop(st, i, k + 1)
    IN  With(Rest, state)

\* for rb in removed_balls: balls.remove(rb); the removed set holds list indices
RemoveBalls(bs, removed) ==
    LET kept == {i \in 1..Len(bs) : i \notin removed}
        \* the list index of the n-th ball kept
        Nth[n \in 1..Cardinality(kept)] ==
            CHOOSE i \in kept : Cardinality({j \in kept : j < i}) = n - 1
    IN  [n \in 1..Cardinality(kept) |-> bs[Nth[n]]]

\* step 3 of a tick: the state after the pocket loop and the removals
PocketStep(bs) ==
    LET Removed(st) ==
            [balls |-> IF st.removed = {} THEN st.balls
                       ELSE RemoveBalls(st.balls, st.removed),
             game_over |-> st.game_over,
             win_message |-> st.win_message,
             foul |-> st.foul]
    IN  With(Removed,
             PocketLoop([balls |-> bs, game_over |-> game_over,
                         win_message |-> win_message,
                         removed |-> {}, foul |-> FALSE], 1, 1))

---------------------------------------------------------------------------
(* call_llm                                                                *)

\* the text of a number in the advisor's answer, as float() reads it:
\* a number, a digit string too long for a float (inf), or text that
\* float() rejects with ValueError, such as "1.2.3" or "-"
Number(n) == [form |-> "number", val |-> n]
Overflow == [form |-> "overflow", val |-> 0]
Malformed == [form |-> "malformed", val |-> 0]

TransportError == [kind |-> "transport_error", angle_str |-> Malformed, power_str |-> Malformed]
NoMatch == [kind |-> "no_match", angle_str |-> Malformed, power_str |-> Malformed]
Match(a, p) == [kind |-> "match", angle_str |-> a, power_str |-> p]
NoResponse == [kind |-> "none", angle_str |-> Malformed, power_str |-> Malformed]

NoShot == [requested |-> FALSE, angle |-> 0, power |-> 0]

\* return fallback_angle, 8.0
FallbackShot(fallback_angle) ==
    [requested |-> TRUE, angle |-> fallback_angle, power |-> FallbackPower]

\* angle_deg %= 360: inf % 360 is nan
Normalize(angle_str) ==
    IF angle_str.form = "overflow" THEN [nan |-> TRUE, val |-> 0]
    ELSE [nan |-> FALSE, val |-> angle_str.val % FullTurn]

\* 0 <= angle_deg < 360
AngleInRange(angle_deg) ==
    ~angle_deg.nan /\ 0 <= angle_deg.val /\ angle_deg.val < FullTurn

\* 0 <= power_val <= 15
PowerInRange(power_str) ==
    power_str.form = "number" /\ 0 <= power_str.val /\ power_str.val <= MaxPower

\* call_llm with a power above the range cut down to the range
call_llm_clamping(resp, fallback_angle) ==
    IF resp.kind # "match" \/ resp.angle_str.form # "number" \/ resp.power_str.form # "number"
       \/ resp.power_str.val < 0
    THEN FallbackShot(fallback_angle)
    ELSE [requested |-> TRUE, angle |-> resp.angle_str.val % FullTurn,
          power |-> IF resp.power_str.val > MaxPower THEN MaxPower ELSE resp.power_str.val]

\* call_llm without the range check
call_llm_unchecked(resp, fallback_angle) ==
    IF resp.kind # "match" \/ resp.angle_str.form # "number" \/ resp.power_str.form # "number"
    THEN FallbackShot(fallback_angle)
    ELSE [requested |-> TRUE, angle |-> resp.angle_str.val % FullTurn,
          power |-> resp.power_str.val]

call_llm(resp, fallback_angle) ==
    IF resp.kind = "transport_error" THEN FallbackShot(fallback_angle)
    ELSE IF resp.kind = "no_match" THEN FallbackShot(fallback_angle)
    ELSE IF resp.angle_str.form = "malformed" \/ resp.power_str.form = "malformed"
    THEN FallbackShot(fallback_angle)
    ELSE LET angle_deg == Normalize(resp.angle_str)
         IN  IF ~AngleInRange(angle_deg) \/ ~PowerInRange(resp.power_str)
             THEN FallbackShot(fallback_angle)
             ELSE [requested |-> TRUE, angle |-> angle_deg.val,
                   power |-> resp.power_str.val]

---------------------------------------------------------------------------
(* The inputs of the model                                                 *)

\* the random offsets of the five object balls from the black ball,
\* each in -RackSpread..RackSpread
Layouts == {
    layout \in {
        << <<-40, -40>>, <<40, -40>>, <<-40, 40>>, <<40, 40>>, <<0, 40>> >>,
        << <<0, 0>>, <<0, 0>>, <<10, 5>>, <<-30, 20>>, <<40, -40>> >> } :
      \A i \in 1..Len(colors) :
          /\ layout[i][1] \in -RackSpread..RackSpread
          /\ layout[i][2] \in -RackSpread..RackSpread }

\* the advisor's answers
AdvisorResponses == {
    TransportError,
    NoMatch,
    Match(Number(400), Number(5)),
    Match(Number(400), Number(16)),
    Match(Number(-90), Number(-1)),
    Match(Malformed, Number(5)),
    Match(Overflow, Number(5)),
    Match(Number(10), Overflow),
    Match(Number(0), Number(0)),
    Match(Number(135), Number(15)),
    Match(Number(53), Number(15)) }

---------------------------------------------------------------------------
(* main(): step 4, the turn state machine                                  *)

\* not any(b.is_moving() for b in balls)
AllAtRest(bs) == \A i \in 1..Len(bs) : ~is_moving(bs[i])

RECURSIVE ClosestLoop(_, _, _)
\* the loop over balls keeping the first non-cue ball of least distance to
\* the cue ball; 0 is closest_ball = None
ClosestLoop(bs, i, best) ==
    IF i > Len(bs) THEN best
    ELSE IF ~bs[i].is_cue
            /\ (best = 0
                \/ DistanceSq(bs[1].x, bs[1].y, bs[i].x, bs[i].y)
                     < DistanceSq(bs[1].x, bs[1].y, bs[best].x, bs[best].y))
         THEN ClosestLoop(bs, i + 1, i)
         ELSE ClosestLoop(bs, i + 1, best)

\* fallback_angle: toward the closest ball, or 0.0 when there is none
FallbackAngle(bs) ==
    LET closest == ClosestLoop(bs, 1, 0)
    IN  IF closest # 0
        THEN angle_degrees(bs[1].x, bs[1].y, bs[closest].x, bs[closest].y)
        ELSE 0

\* cue_ball.vx = math.cos(rad) * power_val; cue_ball.vy = math.sin(rad) * power_val
ApplyShot(bs, s) ==
    [bs EXCEPT ![1].vx = Div(Cos(s.angle) * s.power * Scale, TrigOne),
               ![1].vy = Div(Sin(s.angle) * s.power * Scale, TrigOne)]

\* ShotAllowed with <= for <
ShotAllowedOffByOne(taken, over) == taken <= MAX_SHOTS /\ ~over

\* shots_taken < MAX_SHOTS and not game_over
ShotAllowed(taken, over) == taken < MAX_SHOTS /\ ~over

\* the answers the advisor may give to the n-th request of a game
Answers(n) ==
    IF n <= MaxAnswered THEN AdvisorResponses ELSE {TransportError}

\* the branch that asks the advisor for the next shot and applies it
RequestShot(pk) ==
    \E resp \in Answers(shots_taken + 1) :
        \E fallback_angle \in {FallbackAngle(pk.balls)} :
          \E s \in {call_llm(resp, fallback_angle)} :
            /\ shots_taken' = shots_taken + 1
            /\ balls' = ApplyShot(pk.balls, s)
            /\ game_over' = pk.game_over
            /\ win_message' = pk.win_message
            /\ response' = resp
            /\ fallback' = fallback_angle
            /\ shot' = s

\* if any(b.is_black for b in balls): lose, else cleared
Outcome(bs) ==
    IF \E i \in 1..Len(bs) : bs[i].is_black THEN LoseMsg ELSE ClearedMsg

\* FinishGame without game_over = True
FinishGameStaysOpen(pk) ==
    /\ balls' = pk.balls
    /\ game_over' = pk.game_over
    /\ win_message' = IF ~pk.game_over /\ pk.win_message = NoMessage
                      THEN Outcome(pk.balls) ELSE pk.win_message
    /\ response' = NoResponse
    /\ fallback' = 0
    /\ shot' = NoShot
    /\ UNCHANGED shots_taken

\* the else branch: no more shots or game ended
FinishGame(pk) ==
    /\ balls' = pk.balls
    /\ game_over' = TRUE
    /\ win_message' = IF ~pk.game_over /\ pk.win_message = NoMessage
                      THEN Outcome(pk.balls) ELSE pk.win_message
    /\ response' = NoResponse
    /\ fallback' = 0
    /\ shot' = NoShot
    /\ UNCHANGED shots_taken

\* some ball is still moving: nothing more happens in this tick
KeepPlaying(pk) ==
    /\ balls' = pk.balls
    /\ game_over' = pk.game_over
    /\ win_message' = pk.win_message
    /\ response' = NoResponse
    /\ fallback' = 0
    /\ shot' = NoShot
    /\ UNCHANGED shots_taken

\* for b in balls: b.update()
UpdateAll(bs) == [i \in 1..Len(bs) |-> Update(bs[i])]

\* the body of "if not game_over:"
PlayTick ==
    \E moved \in {UpdateAll(balls)} :
        \E pk \in {PocketStep(handle_collisions(moved))} :
           /\ integrated' = moved
           /\ pocketed' = pk.balls
           /\ foul' = pk.foul
           /\ IF AllAtRest(pk.balls)
              THEN IF ShotAllowed(shots_taken, pk.game_over)
                   THEN RequestShot(pk)
                   ELSE FinishGame(pk)
              ELSE KeepPlaying(pk)

\* game_over is true: only the drawing runs
GameOverTick == UNCHANGED vars

\* Tick without "if not game_over:"
TickWithoutGameOverCheck == PlayTick

\* one pass of the while loop of main()
Tick == IF game_over THEN GameOverTick ELSE PlayTick

\* main() up to the loop
Init ==
    /\ \E layout \in Layouts :
         balls = <<Ball(WIDTH \div 4, HEIGHT \div 2, "WHITE", TRUE, FALSE),
                   Ball((3 * WIDTH) \div 4, HEIGHT \div 2, "BLACK", FALSE, TRUE)>>
                 \o [i \in 1..Len(colors) |->
                       Ball((3 * WIDTH) \div 4 + layout[i][1],
                            HEIGHT \div 2 + layout[i][2], colors[i], FALSE, FALSE)]
    /\ shots_taken = 0
    /\ game_over = FALSE
    /\ win_message = NoMessage
    /\ integrated = balls
    /\ pocketed = balls
    /\ foul = FALSE
    /\ response = NoResponse
    /\ fallback = 0
    /\ shot = NoShot

Next == Tick

Spec == Init /\ [][Next]_vars

\* the tick loop keeps running: clock.tick(60) returns every time
FairSpec == Spec /\ WF_vars(Tick)

---------------------------------------------------------------------------
(* Properties                                                              *)

\* |vx| <= 0.05 and |vy| <= 0.05
Resting(b) == Abs(b.vx) * RestDen <= Scale /\ Abs(b.vy) * RestDen <= Scale

EveryBallResting(bs) == \A i \in 1..Len(bs) : Resting(bs[i])

\* the center of b is closer than POCKET_RADIUS to some pocket
InPocketZone(b) ==
    \E px \in {0, WIDTH}, py \in {0, HEIGHT} :
        (b.x - px * Scale) * (b.x - px * Scale) + (b.y - py * Scale) * (b.y - py * Scale)
            < POCKET_RADIUS * POCKET_RADIUS * Scale * Scale

\* BALL_RADIUS <= x <= WIDTH - BALL_RADIUS and BALL_RADIUS <= y <= HEIGHT - BALL_RADIUS
InBounds(b) ==
    /\ BALL_RADIUS * Scale <= b.x /\ b.x <= (WIDTH - BALL_RADIUS) * Scale
    /\ BALL_RADIUS * Scale <= b.y /\ b.y <= (HEIGHT - BALL_RADIUS) * Scale

CueBalls(bs) == {i \in 1..Len(bs) : bs[i].is_cue}
BlackBalls(bs) == {i \in 1..Len(bs) : bs[i].is_black}
NonCue(bs) == {i \in 1..Len(bs) : ~bs[i].is_cue}

\* a is the angle from the cue ball to a non-cue ball no other non-cue ball is closer than
TowardClosest(a) ==
    \E i \in NonCue(balls) :
        /\ \A j \in NonCue(balls) :
               DistanceSq(balls[1].x, balls[1].y, balls[i].x, balls[i].y)
                   <= DistanceSq(balls[1].x, balls[1].y, balls[j].x, balls[j].y)
        /\ a = angle_degrees(balls[1].x, balls[1].y, balls[i].x, balls[i].y)

\* the cue ball's velocity is power * (cos(angle), sin(angle))
CueStruck(angle, power) ==
    /\ balls[1].is_cue
    /\ balls[1].vx = Div(Cos(angle) * power * Scale, TrigOne)
    /\ balls[1].vy = Div(Sin(angle) * power * Scale, TrigOne)

\* the last tick applied the fallback shot (fallback_angle, 8.0)
FallbackApplied ==
    /\ shot = [requested |-> TRUE, angle |-> fallback, power |-> FallbackPower]
    /\ TowardClosest(fallback)
    /\ CueStruck(fallback, FallbackPower)

\* C1: GameOver is terminal. A tick that starts with game_over true requests no
\* shot, leaves shots_taken, the outcome message and game_over as they are, and
\* leaves the live ball list with every position and velocity as it is.
C1_GameOverTerminal ==
    [][game_over =>
          /\ game_over'
          /\ ~shot'.requested
          /\ response'.kind = "none"
          /\ shots_taken' = shots_taken
          /\ win_message' = win_message
          /\ balls' = balls]_vars

\* the game is over while a ball is still moving: the freeze is visible
C1_Witness == game_over /\ ~EveryBallResting(balls)

\* C2: Shot budget. While ticks keep coming, a run in which the black ball is
\* never captured comes to MAX_SHOTS shot requests; shots_taken never passes
\* MAX_SHOTS; with MAX_SHOTS shots taken no further shot is requested; the
\* first tick after the last shot that ends with every live ball at rest sets
\* game_over, with the lose (or cleared) message unless the black ball was
\* captured; and the game ends without a win only so, after exactly MAX_SHOTS
\* shot requests.
C2_ShotBudget ==
    /\ <>(win_message = WinMsg \/ shots_taken = MAX_SHOTS)
    /\ [](shots_taken <= MAX_SHOTS)
    /\ [](win_message \in {LoseMsg, ClearedMsg} => game_over /\ shots_taken = MAX_SHOTS)
    /\ [][shots_taken = MAX_SHOTS => ~shot'.requested /\ shots_taken' = shots_taken]_vars
    /\ [][~game_over /\ shots_taken = MAX_SHOTS /\ EveryBallResting(balls')
             => game_over' /\ win_message' \in {LoseMsg, ClearedMsg, WinMsg}]_vars
    /\ [][~game_over /\ game_over' /\ win_message' # WinMsg
             => shots_taken = MAX_SHOTS /\ EveryBallResting(balls')
                /\ win_message' \in {LoseMsg, ClearedMsg}]_vars

\* a game lost by the shot budget
C2_Witness ==
    game_over /\ win_message = LoseMsg /\ shots_taken = MAX_SHOTS /\ ~shot.requested

\* C3: the black ball in a pocket wins on the same tick: game_over is true, the
\* message is the win message and no shot was requested in that tick; and the
\* win message is never replaced.
C3_BlackWins ==
    /\ []((\E i \in BlackBalls(pocketed) : InPocketZone(pocketed[i]))
             => game_over /\ win_message = WinMsg /\ ~shot.requested)
    /\ [][win_message = WinMsg => win_message' = WinMsg /\ game_over']_vars

\* the black ball is in a pocket and the game is won
C3_Witness ==
    /\ \E i \in BlackBalls(pocketed) : InPocketZone(pocketed[i])
    /\ game_over
    /\ win_message = WinMsg

\* C4 as claimed: the answer {"angle_degrees": 400, "power": 5} and a transport
\* error both give the fallback shot (fallback_angle, 8.0), applied to the cue ball.
C4_Original ==
    (response = TransportError \/ response = Match(Number(400), Number(5)))
        => FallbackApplied

\* C4 amended: a transport error, and an answer whose power is out of range
\* ({"angle_degrees": 400, "power": 16}), give the fallback shot
\* (fallback_angle, 8.0), toward the closest non-cue ball; the answer
\* {"angle_degrees": 400, "power": 5} is in range once the angle is taken
\* modulo 360 and gives the shot (40, 5). The shot is applied to the cue ball.
C4_FallbackWhenOutOfRange ==
    /\ (response = TransportError \/ response = Match(Number(400), Number(16)))
          => FallbackApplied
    /\ response = Match(Number(400), Number(5))
          => /\ shot = [requested |-> TRUE, angle |-> 40, power |-> 5]
             /\ CueStruck(40, 5)

\* the answer {"angle_degrees": 400, "power": 16} was replaced by the fallback shot
C4_Witness ==
    /\ response = Match(Number(400), Number(16))
    /\ shot.requested
    /\ shot.power = FallbackPower

\* the shot call_llm returned is the advisor's answer, in range
ShotIsAnswer ==
    /\ response.kind = "match"
    /\ response.angle_str.form = "number"
    /\ response.power_str.form = "number"
    /\ 0 <= response.power_str.val /\ response.power_str.val <= MaxPower
    /\ shot.angle = response.angle_str.val % FullTurn
    /\ shot.power = response.power_str.val

\* the shot call_llm returned is (fallback_angle, 8.0)
ShotIsFallback ==
    shot.angle = fallback /\ shot.power = FallbackPower /\ TowardClosest(fallback)

\* C5 as claimed: every shot is the answer (a mod 360, p) with p in range or the
\* fallback shot, so that 0 <= angle < 360 and 0 <= power <= 15.
C5_Original ==
    shot.requested =>
        /\ ShotIsAnswer \/ ShotIsFallback
        /\ 0 <= shot.angle /\ shot.angle < FullTurn
        /\ 0 <= shot.power /\ shot.power <= MaxPower

\* C5 amended: every shot is the answer (a mod 360, p) with p in range or the
\* fallback shot; its power is in 0..15, and its angle is in 0..359 when it is
\* the answer and in -180..180 (as atan2 gives it) when it is the fallback.
C5_ValidatedShot ==
    shot.requested =>
        /\ ShotIsAnswer \/ ShotIsFallback
        /\ ShotIsAnswer => 0 <= shot.angle /\ shot.angle < FullTurn
        /\ -180 <= shot.angle /\ shot.angle < FullTurn
        /\ 0 <= shot.power /\ shot.power <= MaxPower
        /\ CueStruck(shot.angle, shot.power)

\* an answer float() rejects was replaced by a fallback shot of negative angle
C5_Witness ==
    /\ shot.requested
    /\ response.kind = "match"
    /\ response.angle_str.form = "malformed"
    /\ shot.angle < 0

\* C6: the cue foul. After a pocket step that found the cue ball in a pocket
\* the cue ball is at (WIDTH // 4, HEIGHT // 2) with velocity (0, 0), still in
\* the list; the cue ball is never left in a pocket; the list always holds
\* exactly one cue ball.
C6_CueFoul ==
    /\ Cardinality(CueBalls(balls)) = 1
    /\ Cardinality(CueBalls(pocketed)) = 1
    /\ \A i \in CueBalls(balls) : ~InPocketZone(balls[i])
    /\ foul =>
          \A i \in CueBalls(pocketed) :
              /\ pocketed[i].x = (WIDTH \div 4) * Scale
              /\ pocketed[i].y = (HEIGHT \div 2) * Scale
              /\ pocketed[i].vx = 0
              /\ pocketed[i].vy = 0
              /\ balls[i].x = pocketed[i].x
              /\ balls[i].y = pocketed[i].y

\* a tick fouled: the cue ball came into a pocket with the game still on
C6_Witness == foul /\ ~game_over /\ Cardinality(CueBalls(balls)) = 1

\* C7 as claimed: at the end of every tick every live ball is within the walls.
C7_Original == \A i \in 1..Len(balls) : InBounds(balls[i])

\* C7 amended: right after the integration step of every tick (Ball.update with
\* its wall reflection) every live ball is within the walls; the collision
\* resolver runs after it and may leave a ball outside at the end of the tick.
C7_ContainedAfterUpdate == \A i \in 1..Len(integrated) : InBounds(integrated[i])

\* a ball was put back on the right or the lower wall and sent back
C7_Witness ==
    \E i \in 1..Len(integrated) :
        \/ integrated[i].x = (WIDTH - BALL_RADIUS) * Scale /\ integrated[i].vx < 0
        \/ integrated[i].y = (HEIGHT - BALL_RADIUS) * Scale /\ integrated[i].vy < 0

\* C8: a shot is requested only in a tick after whose pocket step the game is
\* not over and every live ball is at rest, with shots_taken below MAX_SHOTS
\* before; each request adds exactly 1 to shots_taken, nothing else changes
\* it, and 0 <= shots_taken <= MAX_SHOTS.
C8_ShotOnlyAtRest ==
    /\ [](0 <= shots_taken /\ shots_taken <= MAX_SHOTS)
    /\ [](shot.requested => ~game_over /\ EveryBallResting(pocketed))
    /\ [][shots_taken' = shots_taken + (IF shot'.requested THEN 1 ELSE 0)]_vars
    /\ [][shot'.requested => shots_taken < MAX_SHOTS]_vars

\* the last shot of the budget was requested
C8_Witness == shot.requested /\ shots_taken = MAX_SHOTS /\ EveryBallResting(pocketed)

\* the last tick ended its pocket step with a ball still moving
InMotion == ~EveryBallResting(pocketed)

\* C9 as claimed: while ticks keep coming every game reaches game_over, the
\* balls a shot has set moving come to rest in finitely many ticks, and at
\* most MAX_SHOTS shots are taken.
C9_Original ==
    /\ <>game_over
    /\ InMotion ~> EveryBallResting(pocketed)
    /\ [](shots_taken <= MAX_SHOTS)

\* C9 amended: while ticks keep coming every game reaches game_over, whatever
\* the advisor answers, and at most MAX_SHOTS shots are taken; the balls a
\* shot has set moving come to rest in finitely many ticks unless the game is
\* won first: a black ball potted while a ball is moving ends the game with
\* the balls frozen as they are, their velocities above the rest threshold
\* for good.
C9_GameEnds ==
    /\ <>game_over
    /\ InMotion ~> (EveryBallResting(pocketed) \/ (game_over /\ win_message = WinMsg))
    /\ [](shots_taken <= MAX_SHOTS)
    /\ [](game_over /\ win_message # WinMsg => EveryBallResting(balls))

\* the game was won by a shot whose balls never came to rest
C9_Witness ==
    /\ game_over
    /\ win_message = WinMsg
    /\ ~EveryBallResting(balls)
    /\ ~EveryBallResting(pocketed)

\* C10: the black ball is always in the live list (potted or not), the list
\* only shrinks, and the cleared message is never assigned: a game that ends
\* without a win ends with the lose message.
C10_BlackStays ==
    /\ [](Cardinality(BlackBalls(balls)) = 1)
    /\ [](win_message \in {NoMessage, WinMsg, LoseMsg})
    /\ [](game_over => win_message \in {WinMsg, LoseMsg})
    /\ [][\A i \in 1..Len(balls') : \E j \in 1..Len(balls) :
              balls'[i].color = balls[j].color]_vars
    /\ [][Len(balls') < Len(balls) =>
              \A j \in 1..Len(balls) :
                  (balls[j].is_cue \/ balls[j].is_black)
                      => \E i \in 1..Len(balls') : balls'[i].color = balls[j].color]_vars

\* an object ball has left the list and the game was lost with the black ball in it
C10_Witness ==
    /\ game_over
    /\ win_message = LoseMsg
    /\ Len(balls) < Len(colors) + 2
    /\ BlackBalls(balls) # {}

====
